---- MODULE Spec2Model ----
(***************************************************************************)
(* A model of the key-value database server of src/server.py: the request  *)
(* loop (_listen), the four request handlers, the query parser and         *)
(* executor, the snapshot job and the start-up load of the snapshot file.  *)
(*                                                                         *)
(* Python values are records [kind, n, s, nan]; a str is the sequence of   *)
(* its characters.  The dict self.data is the sequence of its entries in   *)
(* insertion order, which is the order CPython iterates it in.             *)
(***************************************************************************)
EXTENDS Integers, Sequences, FiniteSets, TLC

(***************************************************************************)
(* Bounds of the model.                                                    *)
(***************************************************************************)
\* the largest number of entries the Store holds
MaxEntries == 2

\* the largest number of entries one run of the snapshot job writes (the
\* main thread can keep adding entries in front of the job's iterator)
MaxDumped == 3

\* the largest number of requests the main thread receives during one run
\* of the snapshot job
MaxServedPerDump == 2

(***************************************************************************)
(* Python values.                                                          *)
(***************************************************************************)
PyInt(i) == [kind |-> "int", n |-> i, s |-> <<>>, nan |-> FALSE]

PyFloat(i) == [kind |-> "float", n |-> i, s |-> <<>>, nan |-> FALSE]

PyComplex(i) == [kind |-> "complex", n |-> i, s |-> <<>>, nan |-> FALSE]

PyStr(chars) == [kind |-> "str", n |-> 0, s |-> chars, nan |-> FALSE]

\* float("nan"): a float that compares unequal to everything, itself included
PyNaN == [kind |-> "float", n |-> 0, s |-> <<>>, nan |-> TRUE]

PyNone == [kind |-> "none", n |-> 0, s |-> <<>>, nan |-> FALSE]

IsNumber(a) == a.kind \in {"int", "float", "complex"}

\* a == b between two distinct objects (numbers compare across kinds)
PyEq(a, b) ==
    \/ IsNumber(a) /\ IsNumber(b) /\ ~a.nan /\ ~b.nan /\ a.n = b.n
    \/ a.kind = "str" /\ b.kind = "str" /\ a.s = b.s
    \/ a.kind = "none" /\ b.kind = "none"

(***************************************************************************)
(* Characters.                                                             *)
(***************************************************************************)
\* pyparsing's default whitespace characters
Whitespace == {" ", "\t", "\n", "\r"}

Digits == <<"0", "1", "2", "3", "4", "5", "6", "7", "8", "9">>

IsDigit(c) == \E d \in 1..Len(Digits) : Digits[d] = c

DigitVal(c) == (CHOOSE d \in 1..Len(Digits) : Digits[d] = c) - 1

\* pyparsing.Keyword.DEFAULT_KEYWORD_CHARS: alphanums + "_$"
IdentChars ==
    {"a", "b", "c", "d", "e", "f", "g", "h", "i", "j", "k", "l", "m",
     "n", "o", "p", "q", "r", "s", "t", "u", "v", "w", "x", "y", "z",
     "A", "B", "C", "D", "E", "F", "G", "H", "I", "J", "K", "L", "M",
     "N", "O", "P", "Q", "R", "S", "T", "U", "V", "W", "X", "Y", "Z",
     "0", "1", "2", "3", "4", "5", "6", "7", "8", "9", "_", "$"}

\* the code points' order on the characters the model's strings are made of
CharOrder ==
    <<"(", ")", "+", "-", "0", "1", "2", "3", "4", "5", "6", "7", "8", "9",
      "<", "=", ">", "J", "M", "_", "a", "b", "c", "d", "e", "f", "g", "h",
      "i", "j", "k", "l", "m", "n", "o", "p", "q", "r", "s", "t", "u", "v",
      "w", "x", "y", "z">>

Ord(c) == CHOOSE i \in 1..Len(CharOrder) : CharOrder[i] = c

(***************************************************************************)
(* Python's comparison operators on the values above.  A comparison        *)
(* yields "true", "false" or "raise" (a TypeError).                        *)
(***************************************************************************)
RECURSIVE StrLtFrom(_, _, _)
\* a < b for two str, deciding from character i on (the code points' order)
StrLtFrom(a, b, i) ==
    IF i > Len(b) THEN FALSE
    ELSE IF i > Len(a) THEN TRUE
    ELSE IF a[i] # b[i] THEN Ord(a[i]) < Ord(b[i])
    ELSE StrLtFrom(a, b, i + 1)

StrLt(a, b) == StrLtFrom(a, b, 1)

\* b in a, for two str: b is a substring of a
IsSubstring(b, a) ==
    \E i \in 0..(Len(a) - Len(b)) : \A j \in 1..Len(b) : a[i + j] = b[j]

Truth(b) == IF b THEN "true" ELSE "false"

\* operator.lt(a, b) that orders values of different kinds, numbers before
\* strings, where Python 3 raises
PyLtAnyKinds(a, b) ==
    IF a.kind \in {"int", "float"} /\ b.kind \in {"int", "float"}
    THEN Truth(~a.nan /\ ~b.nan /\ a.n < b.n)
    ELSE IF a.kind = "str" /\ b.kind = "str" THEN Truth(StrLt(a.s, b.s))
    ELSE Truth(IsNumber(a) /\ b.kind = "str")

\* operator.lt(a, b)
PyLt(a, b) ==
    IF a.kind \in {"int", "float"} /\ b.kind \in {"int", "float"}
    THEN Truth(~a.nan /\ ~b.nan /\ a.n < b.n)
    ELSE IF a.kind = "str" /\ b.kind = "str" THEN Truth(StrLt(a.s, b.s))
    ELSE "raise"

\* operator.le(a, b)
PyLe(a, b) ==
    IF a.kind \in {"int", "float"} /\ b.kind \in {"int", "float"}
    THEN Truth(~a.nan /\ ~b.nan /\ a.n <= b.n)
    ELSE IF a.kind = "str" /\ b.kind = "str" THEN Truth(~StrLt(b.s, a.s))
    ELSE "raise"

\* operator.contains(a, b), which is b in a
PyContains(a, b) ==
    IF a.kind = "str" /\ b.kind = "str" THEN Truth(IsSubstring(b.s, a.s))
    ELSE "raise"

\* the table `operators` of _query, applied
ApplyOperator(op, a, b) ==
    CASE op = "<" -> PyLt(a, b)
      [] op = ">" -> PyLt(b, a)
      [] op = "<=" -> PyLe(a, b)
      [] op = ">=" -> PyLe(b, a)
      [] op = "=" -> Truth(PyEq(a, b))
      [] op = "contains" -> PyContains(a, b)

(***************************************************************************)
(* The casts of _parse_value_to_type.  The literals of the model are       *)
(* decimal integers (an optional sign, digits, single underscores between  *)
(* digits), "nan", and words that are no number at all.                    *)
(***************************************************************************)
RECURSIVE DigitsFrom(_, _, _)
\* the value of the digits of chars from i on, given the value so far,
\* or -1 when they are not digits separated by single underscores
DigitsFrom(chars, i, acc) ==
    IF i > Len(chars) THEN acc
    ELSE IF IsDigit(chars[i])
         THEN DigitsFrom(chars, i + 1, 10 * acc + DigitVal(chars[i]))
    ELSE IF chars[i] = "_" /\ i > 1 /\ i < Len(chars)
            /\ IsDigit(chars[i - 1]) /\ IsDigit(chars[i + 1])
         THEN DigitsFrom(chars, i + 1, acc)
    ELSE -1

HasSign(chars) == Len(chars) > 0 /\ chars[1] \in {"+", "-"}

Unsigned(chars) == IF HasSign(chars) THEN Tail(chars) ELSE chars

\* whether int(chars) returns
IsIntLiteral(chars) ==
    LET u == Unsigned(chars)
    IN  Len(u) > 0 /\ IsDigit(u[1]) /\ DigitsFrom(u, 1, 0) >= 0

\* int(chars), for an integer literal
IntOf(chars) ==
    LET v == DigitsFrom(Unsigned(chars), 1, 0)
    IN  IF HasSign(chars) /\ chars[1] = "-" THEN 0 - v ELSE v

IsNanLiteral(chars) == Unsigned(chars) = <<"n", "a", "n">>

\* types[value_type](value): [ok |-> FALSE] stands for the KeyError of an
\* unknown type name and the ValueError of a literal that does not convert
_parse_value_to_type(value, value_type) ==
    CASE value_type = <<"i", "n", "t">> ->
           IF IsIntLiteral(value)
           THEN [ok |-> TRUE, value |-> PyInt(IntOf(value))]
           ELSE [ok |-> FALSE, value |-> PyNone]
      [] value_type = <<"f", "l", "o", "a", "t">> ->
           IF IsIntLiteral(value)
           THEN [ok |-> TRUE, value |-> PyFloat(IntOf(value))]
           ELSE IF IsNanLiteral(value)
           THEN [ok |-> TRUE, value |-> PyNaN]
           ELSE [ok |-> FALSE, value |-> PyNone]
      [] value_type = <<"c", "o", "m", "p", "l", "e", "x">> ->
           IF IsIntLiteral(value)
           THEN [ok |-> TRUE, value |-> PyComplex(IntOf(value))]
           ELSE IF IsNanLiteral(value)
           THEN [ok |-> TRUE, value |-> [PyComplex(0) EXCEPT !.nan = TRUE]]
           ELSE [ok |-> FALSE, value |-> PyNone]
      [] value_type = <<"s", "t", "r">> ->
           [ok |-> TRUE, value |-> PyStr(value)]
      [] OTHER -> [ok |-> FALSE, value |-> PyNone]

(***************************************************************************)
(* The dict self.data: a sequence of entries [key, value] in insertion     *)
(* order.  A lookup with a key that arrived in a request compares it with  *)
(* the stored keys by ==, since it is never the same object as one of them.*)
(***************************************************************************)
Entry(k, v) == [key |-> k, value |-> v]

\* the position of the entry whose key equals k, or 0
DictFind(d, k) ==
    IF \E i \in 1..Len(d) : PyEq(d[i].key, k)
    THEN CHOOSE i \in 1..Len(d) : PyEq(d[i].key, k)
    ELSE 0

\* d[k] = v: the value of an equal key is replaced in place (the stored key
\* object stays), a new key is appended
DictSet(d, k, v) ==
    IF DictFind(d, k) > 0
    THEN [d EXCEPT ![DictFind(d, k)].value = v]
    ELSE Append(d, Entry(k, v))

\* the dict without the entry at position i
DictDelAt(d, i) == SubSeq(d, 1, i - 1) \o SubSeq(d, i + 1, Len(d))

\* the position in d of the very entry e (the key object itself), or 0
DictFindEntry(d, e) ==
    IF \E i \in 1..Len(d) : d[i] = e
    THEN CHOOSE i \in 1..Len(d) : d[i] = e
    ELSE 0

(***************************************************************************)
(* pickle: the opcode stream pickle.dump writes for a dict of the values   *)
(* above, and pickle.loads as the stack machine that reads it back.        *)
(***************************************************************************)
Op(name) == [op |-> name, arg |-> PyNone]

Push(v) == [op |-> "PUSH", arg |-> v]

RECURSIVE DumpItems(_, _)
\* the keys and values of the entries of d from position i on
DumpItems(d, i) ==
    IF i > Len(d) THEN <<>>
    ELSE <<Push(d[i].key), Push(d[i].value)>> \o DumpItems(d, i + 1)

\* pickle.dumps(d) of a dict nobody changes meanwhile (save_dict, batch_dict)
Dumps(d) ==
    <<Op("PROTO"), Op("EMPTY_DICT")>>
    \o (IF Len(d) = 0 THEN <<>>
        ELSE IF Len(d) = 1 THEN DumpItems(d, 1) \o <<Op("SETITEM")>>
        ELSE <<Op("MARK")>> \o DumpItems(d, 1) \o <<Op("SETITEMS")>>)
    \o <<Op("STOP")>>

RECURSIVE SetItems(_, _, _)
\* d[k] = v for the pairs of items from position i on, in their order
SetItems(d, items, i) ==
    IF i + 1 > Len(items) THEN d
    ELSE SetItems(DictSet(d, items[i], items[i + 1]), items, i + 2)

RECURSIVE LoadFrom(_, _, _, _, _)
\* the unpickler at opcode i, with the dict d on the stack (have says
\* whether it is), the objects `items` above it and the mark below them
LoadFrom(bytes, i, have, d, st) ==
    IF i > Len(bytes) THEN [ok |-> FALSE, err |-> "EOFError", data |-> <<>>]
    ELSE LET o == bytes[i]
             bad == [ok |-> FALSE, err |-> "UnpicklingError", data |-> <<>>]
         IN CASE o.op = "PROTO" -> LoadFrom(bytes, i + 1, have, d, st)
              [] o.op = "EMPTY_DICT" ->
                   IF have THEN bad
                   ELSE LoadFrom(bytes, i + 1, TRUE, <<>>, st)
              [] o.op = "MARK" ->
                   IF ~have \/ st.mark \/ Len(st.items) > 0 THEN bad
                   ELSE LoadFrom(bytes, i + 1, have, d,
                                 [st EXCEPT !.mark = TRUE])
              [] o.op = "PUSH" ->
                   IF ~have THEN bad
                   ELSE LoadFrom(bytes, i + 1, have, d,
                            [st EXCEPT !.items = Append(st.items, o.arg)])
              [] o.op = "SETITEM" ->
                   IF ~have \/ st.mark \/ Len(st.items) # 2 THEN bad
                   ELSE LoadFrom(bytes, i + 1, have,
                                 SetItems(d, st.items, 1),
                                 [mark |-> FALSE, items |-> <<>>])
              [] o.op = "SETITEMS" ->
                   IF ~have \/ ~st.mark \/ Len(st.items) % 2 # 0 THEN bad
                   ELSE LoadFrom(bytes, i + 1, have,
                                 SetItems(d, st.items, 1),
                                 [mark |-> FALSE, items |-> <<>>])
              [] o.op = "STOP" ->
                   IF ~have \/ st.mark \/ Len(st.items) > 0 THEN bad
                   ELSE [ok |-> TRUE, err |-> "none", data |-> d]
              [] OTHER -> bad

\* pickle.loads(bytes)
Loads(bytes) ==
    LoadFrom(bytes, 1, FALSE, <<>>, [mark |-> FALSE, items |-> <<>>])

(***************************************************************************)
(* pyparsing, as far as the grammar of _parse_query_string uses it.  A     *)
(* query string is the sequence of its characters; a location is a         *)
(* position in it, and 0 stands for "no match".                            *)
(***************************************************************************)
RECURSIVE SkipWs(_, _)
\* every element skips the whitespace before it
SkipWs(str, loc) ==
    IF loc <= Len(str) /\ str[loc] \in Whitespace
    THEN SkipWs(str, loc + 1)
    ELSE loc

\* Keyword(kw) at loc, the first character that is no whitespace: kw itself,
\* neither preceded nor followed by an identifier character; the location
\* after it, or 0
KeywordHere(str, loc, kw) ==
    IF /\ loc + Len(kw) - 1 <= Len(str)
       /\ SubSeq(str, loc, loc + Len(kw) - 1) = kw
       /\ (loc + Len(kw) > Len(str) \/ str[loc + Len(kw)] \notin IdentChars)
       /\ (loc = 1 \/ str[loc - 1] \notin IdentChars)
    THEN loc + Len(kw)
    ELSE 0

KeywordAt(str, start, kw) ==
    IF start = 0 THEN 0 ELSE KeywordHere(str, SkipWs(str, start), kw)

RECURSIVE MatchFirst(_, _, _, _)
RECURSIVE MatchOr(_, _, _, _, _)
\* Keyword(..) | Keyword(..) | ...: the first alternative that matches
MatchFirst(str, start, kws, i) ==
    IF i > Len(kws) THEN [loc |-> 0, tok |-> ""]
    ELSE MatchOr(KeywordAt(str, start, kws[i].chars), str, start, kws, i)

\* alternative i matched up to loc, or (loc = 0) the next one is tried
MatchOr(loc, str, start, kws, i) ==
    IF loc > 0 THEN [loc |-> loc, tok |-> kws[i].name]
    ELSE MatchFirst(str, start, kws, i + 1)

RECURSIVE WordEnd(_, _)
\* the end of the run of printable (non-whitespace) characters at loc
WordEnd(str, loc) ==
    IF loc <= Len(str) /\ str[loc] \notin Whitespace
    THEN WordEnd(str, loc + 1)
    ELSE loc

WordSpan(str, loc, end) ==
    IF end = loc THEN [loc |-> 0, tok |-> <<>>]
    ELSE [loc |-> end, tok |-> SubSeq(str, loc, end - 1)]

WordHere(str, loc) == WordSpan(str, loc, WordEnd(str, loc))

\* Word(printables): the longest run of printable characters
WordAt(str, start) ==
    IF start = 0 THEN [loc |-> 0, tok |-> <<>>]
    ELSE WordHere(str, SkipWs(str, start))

LiteralHere(str, loc, c) ==
    IF loc <= Len(str) /\ str[loc] = c THEN loc + 1 ELSE 0

\* Literal(c) for a single character c
LiteralAt(str, start, c) ==
    IF start = 0 THEN 0 ELSE LiteralHere(str, SkipWs(str, start), c)

ActionKeywords ==
    <<[name |-> "read", chars |-> <<"r", "e", "a", "d">>],
      [name |-> "delete", chars |-> <<"d", "e", "l", "e", "t", "e">>]>>

ElementKeywords ==
    <<[name |-> "key", chars |-> <<"k", "e", "y">>],
      [name |-> "value", chars |-> <<"v", "a", "l", "u", "e">>]>>

OperatorKeywords ==
    <<[name |-> "<=", chars |-> <<"<", "=">>],
      [name |-> ">=", chars |-> <<">", "=">>],
      [name |-> "<", chars |-> <<"<">>],
      [name |-> ">", chars |-> <<">">>],
      [name |-> "=", chars |-> <<"=">>],
      [name |-> "contains",
       chars |-> <<"c", "o", "n", "t", "a", "i", "n", "s">>]>>

\* VALUE: the typed alternative matched up to rp, or (rp = 0) the second
\* alternative, the word at the start, which is the word vt
ValueResult(vt, v, rp) ==
    IF rp > 0
    THEN [loc |-> rp, typed |-> TRUE, value_type |-> vt.tok, value |-> v.tok]
    ELSE [loc |-> vt.loc, typed |-> FALSE, value_type |-> <<>>,
          value |-> vt.tok]

ValueCloseParen(str, vt, v) ==
    ValueResult(vt, v, LiteralAt(str, v.loc, ")"))

ValueWord(str, vt, lp) == ValueCloseParen(str, vt, WordAt(str, lp))

ValueOpenParen(str, vt) == ValueWord(str, vt, LiteralAt(str, vt.loc, "("))

\* VALUE = (Word("value_type") + "(" + Word("value") + ")") | Word("value")
ValueAt(str, start) == ValueOpenParen(str, WordAt(str, start))

NoParse ==
    [ok |-> FALSE, action |-> "", element |-> "", operator |-> "",
     value |-> PyNone]

\* the ParseResults of a match, a typed value replaced by its cast; no
\* result when an element did not match or the cast raised
ParseResult(a, e, o, v, cast) ==
    IF a.loc = 0 \/ e.loc = 0 \/ o.loc = 0 \/ v.loc = 0 \/ ~cast.ok
    THEN NoParse
    ELSE [ok |-> TRUE, action |-> a.tok, element |-> e.tok,
          operator |-> o.tok, value |-> cast.value]

ParseCast(a, e, o, v) ==
    ParseResult(a, e, o, v,
                IF v.typed THEN _parse_value_to_type(v.value, v.value_type)
                ELSE [ok |-> TRUE, value |-> PyStr(v.value)])

ParseValue(query, a, e, o) == ParseCast(a, e, o, ValueAt(query, o.loc))

ParseOperator(query, a, e) ==
    ParseValue(query, a, e, MatchFirst(query, e.loc, OperatorKeywords, 1))

ParseElement(query, a) ==
    ParseOperator(query, a, MatchFirst(query, a.loc, ElementKeywords, 1))

\* SYNTAX = ACTION + ELEMENT + OPERATOR + VALUE; SYNTAX.parseString(query),
\* then the cast of a typed value.  parseString is called without parseAll:
\* what follows the match is not looked at.
_parse_query_string(query) ==
    ParseElement(query, MatchFirst(query, 1, ActionKeywords, 1))

(***************************************************************************)
(* Requests and responses.                                                 *)
(***************************************************************************)
\* the message of a successful Response: Python's None
None == "None"

\* Request(request_type, key, value, query), as the client builds it
Request(request_type, key, value, query) ==
    [request_type |-> request_type, key |-> key, value |-> value,
     query |-> query]

\* Response(success, message, data); data is a list of (key, value) tuples
Response(success, message, rdata) ==
    [success |-> success, message |-> message, data |-> rdata]

\* _send_error with True for False
_send_error_true(description) == Response(TRUE, description, <<>>)

\* _send_error(description)
_send_error(description) == Response(FALSE, description, <<>>)

NoRequest == Request(-1, PyNone, PyNone, <<>>)

NoResponse == Response(FALSE, "", <<>>)

(***************************************************************************)
(* The request handlers, as functions of the dict: the dict they leave and *)
(* the Response they return.                                               *)
(***************************************************************************)
\* _read with self.data.get(key) for self.data[key]: no KeyError
_read_get(d, key) ==
    [data |-> d,
     response |-> Response(TRUE, None,
                     <<<<key, IF DictFind(d, key) > 0
                              THEN d[DictFind(d, key)].value
                              ELSE PyNone>>>>)]

\* _read(key): the lookup raises KeyError for a key that is not in the dict
_read(d, key) ==
    [data |-> d,
     response |-> IF DictFind(d, key) > 0
                  THEN Response(TRUE, None,
                                <<<<key, d[DictFind(d, key)].value>>>>)
                  ELSE _send_error("Entry does not exist.")]

\* _add with self.data.setdefault(key, value): an existing value is kept
_add_setdefault(d, key, value) ==
    [data |-> IF DictFind(d, key) > 0 THEN d ELSE Append(d, Entry(key, value)),
     response |-> Response(TRUE, None, <<<<key, value>>>>)]

\* _add on a list of pairs: the pair is appended, whatever the list holds
_add_append(d, key, value) ==
    [data |-> Append(d, Entry(key, value)),
     response |-> Response(TRUE, None, <<<<key, value>>>>)]

\* _add(key, value): the lookup that follows the store uses the same key
\* object, so it finds the entry just written
_add(d, key, value) ==
    [data |-> DictSet(d, key, value),
     response |-> Response(TRUE, None, <<<<key, value>>>>)]

\* _delete with self.data.clear() for del self.data[key]
_delete_clear(d, key) ==
    IF DictFind(d, key) > 0
    THEN [data |-> <<>>, response |-> Response(TRUE, None, <<>>)]
    ELSE [data |-> d, response |-> _send_error("Entry could not be deleted.")]

\* _delete(key): del raises KeyError for a key that is not in the dict
_delete(d, key) ==
    IF DictFind(d, key) > 0
    THEN [data |-> DictDelAt(d, DictFind(d, key)),
          response |-> Response(TRUE, None, <<>>)]
    ELSE [data |-> d, response |-> _send_error("Entry could not be deleted.")]

\* _delete_from_query with pass for its body: nothing is deleted
_delete_from_query_pass(d, e) == d

\* _delete_from_query(key), for the key object of the entry e of the copy:
\* del raises KeyError when the entry is gone
_delete_from_query(d, e) ==
    IF DictFindEntry(d, e) > 0 THEN DictDelAt(d, DictFindEntry(d, e)) ELSE d

\* the "=" branch with query_action called before the lookup: the action
\* has raised, or has deleted the entry, when the match would be appended
QueryByKeyEqCallFirst(d, q) ==
    [data |-> IF q.action = "delete" /\ DictFind(d, q.value) > 0
              THEN DictDelAt(d, DictFind(d, q.value))
              ELSE d,
     matches |-> <<>>]

\* the "=" branch of _execute_query_by_key: one lookup, no scan.  With
\* action read, query_action is None and calling it raises a TypeError the
\* except clause swallows, after the match was appended.
QueryByKeyEq(d, q) ==
    LET i == DictFind(d, q.value)
    IN  IF i = 0 THEN [data |-> d, matches |-> <<>>]
        ELSE [data |-> IF q.action = "delete" THEN DictDelAt(d, i) ELSE d,
              matches |-> <<<<q.value, d[i].value>>>>]

\* whether the query runs the loop over self.data.copy()
IsScan(q) == q.element = "value" \/ q.operator # "="

\* the loop body without its try: an operator that raises counts as a match
ScanMatchesUncaught(q, e) ==
    ApplyOperator(q.operator,
                  IF q.element = "key" THEN e.key ELSE e.value,
                  q.value) # "false"

\* one iteration of the loop of _execute_query_by_value/_by_key on the entry
\* e of the copy: the operator raising, or returning False, skips the entry
ScanMatches(q, e) ==
    ApplyOperator(q.operator,
                  IF q.element = "key" THEN e.key ELSE e.value,
                  q.value) = "true"

(***************************************************************************)
(* The inputs of the model: keys, values and query strings.                *)
(***************************************************************************)
Ab == PyStr(<<"a", "b">>)

\* the keys requests carry: two int, a float, a str, and a float NaN
Keys == {PyInt(1), PyInt(6), PyFloat(7), Ab, PyNaN}

\* the values requests carry
Values == {PyInt(1), Ab}

\* "read key > int ( 5 )" (client.py doctest)
Q_ReadKeyGtInt5 ==
    <<"r", "e", "a", "d", " ", "k", "e", "y", " ", ">", " ", "i", "n",
      "t", " ", "(", " ", "5", " ", ")">>

\* "read value = ab"
Q_ReadValueEqAb ==
    <<"r", "e", "a", "d", " ", "v", "a", "l", "u", "e", " ", "=", " ",
      "a", "b">>

\* "delete value contains b"
Q_DeleteValueContainsB ==
    <<"d", "e", "l", "e", "t", "e", " ", "v", "a", "l", "u", "e", " ",
      "c", "o", "n", "t", "a", "i", "n", "s", " ", "b">>

\* "read key = int ( 1 )"
Q_ReadKeyEqInt1 ==
    <<"r", "e", "a", "d", " ", "k", "e", "y", " ", "=", " ", "i", "n",
      "t", " ", "(", " ", "1", " ", ")">>

\* "delete key = int ( 1 )"
Q_DeleteKeyEqInt1 ==
    <<"d", "e", "l", "e", "t", "e", " ", "k", "e", "y", " ", "=", " ",
      "i", "n", "t", " ", "(", " ", "1", " ", ")">>

\* "delete key < int ( 9 )"
Q_DeleteKeyLtInt9 ==
    <<"d", "e", "l", "e", "t", "e", " ", "k", "e", "y", " ", "<", " ",
      "i", "n", "t", " ", "(", " ", "9", " ", ")">>

\* "read key <= ab"
Q_ReadKeyLeAb ==
    <<"r", "e", "a", "d", " ", "k", "e", "y", " ", "<", "=", " ", "a",
      "b">>

\* "read key = float ( nan )"
Q_ReadKeyEqFloatNan ==
    <<"r", "e", "a", "d", " ", "k", "e", "y", " ", "=", " ", "f", "l",
      "o", "a", "t", " ", "(", " ", "n", "a", "n", " ", ")">>

\* "read key >= int ( 6 )"
Q_ReadKeyGeInt6 ==
    <<"r", "e", "a", "d", " ", "k", "e", "y", " ", ">", "=", " ", "i", "n",
      "t", " ", "(", " ", "6", " ", ")">>

\* "read key < int ( 6 )"
Q_ReadKeyLtInt6 ==
    <<"r", "e", "a", "d", " ", "k", "e", "y", " ", "<", " ", "i", "n", "t",
      " ", "(", " ", "6", " ", ")">>

\* "read key <= int ( 6 )"
Q_ReadKeyLeInt6 ==
    <<"r", "e", "a", "d", " ", "k", "e", "y", " ", "<", "=", " ", "i", "n",
      "t", " ", "(", " ", "6", " ", ")">>

\* "read key = ab"
Q_ReadKeyEqAb ==
    <<"r", "e", "a", "d", " ", "k", "e", "y", " ", "=", " ", "a", "b">>

\* "read key = float ( 7 )"
Q_ReadKeyEqFloat7 ==
    <<"r", "e", "a", "d", " ", "k", "e", "y", " ", "=", " ", "f", "l",
      "o", "a", "t", " ", "(", " ", "7", " ", ")">>

\* "read something > int ( 5 )" (wrong element keyword)
Q_ReadSomething ==
    <<"r", "e", "a", "d", " ", "s", "o", "m", "e", "t", "h", "i", "n",
      "g", " ", ">", " ", "i", "n", "t", " ", "(", " ", "5", " ", ")">>

\* "remove key = 1" (wrong action keyword)
Q_RemoveKey ==
    <<"r", "e", "m", "o", "v", "e", " ", "k", "e", "y", " ", "=", " ",
      "1">>

\* "read key != 1" (wrong operator)
Q_BadOperator ==
    <<"r", "e", "a", "d", " ", "k", "e", "y", " ", "!", "=", " ", "1">>

\* "read key =" (no value)
Q_TooFewTokens ==
    <<"r", "e", "a", "d", " ", "k", "e", "y", " ", "=">>

\* "read key = ab and more" (tokens after the value)
Q_TrailingTokens ==
    <<"r", "e", "a", "d", " ", "k", "e", "y", " ", "=", " ", "a", "b",
      " ", "a", "n", "d", " ", "m", "o", "r", "e">>

\* "read key = int ( 1" (no closing parenthesis)
Q_UnclosedParen ==
    <<"r", "e", "a", "d", " ", "k", "e", "y", " ", "=", " ", "i", "n",
      "t", " ", "(", " ", "1">>

\* "read key = number ( 1 )" (unknown type name)
Q_UnknownType ==
    <<"r", "e", "a", "d", " ", "k", "e", "y", " ", "=", " ", "n", "u",
      "m", "b", "e", "r", " ", "(", " ", "1", " ", ")">>

\* "read key = int ( ab )" (a literal int() rejects)
Q_BadCast ==
    <<"r", "e", "a", "d", " ", "k", "e", "y", " ", "=", " ", "i", "n",
      "t", " ", "(", " ", "a", "b", " ", ")">>

\* query strings of the grammar of the docstring of _parse_query_string
WellFormedQueries ==
    {Q_ReadKeyGtInt5,
     Q_ReadValueEqAb,
     Q_DeleteValueContainsB,
     Q_ReadKeyEqInt1,
     Q_DeleteKeyEqInt1,
     Q_DeleteKeyLtInt9,
     Q_ReadKeyLeAb,
     Q_ReadKeyEqFloatNan,
     Q_ReadKeyGeInt6,
     Q_ReadKeyLtInt6,
     Q_ReadKeyLeInt6,
     Q_ReadKeyEqAb,
     Q_ReadKeyEqFloat7}

\* query strings that deviate from it
MalformedQueries ==
    {Q_ReadSomething,
     Q_RemoveKey,
     Q_BadOperator,
     Q_TooFewTokens,
     Q_TrailingTokens,
     Q_UnclosedParen,
     Q_UnknownType,
     Q_BadCast}

QueryStrings == WellFormedQueries \cup MalformedQueries

\* _parse_query_string on the query strings of the model, computed once
ParsedQueries == [query \in QueryStrings |-> _parse_query_string(query)]

\* the ParseResults of a query string
Parsed(query) ==
    IF query \in QueryStrings THEN ParsedQueries[query]
    ELSE _parse_query_string(query)

\* the requests a client sends: read, add, delete and query, and two
\* request types no handler exists for
Requests ==
    {Request(0, k, PyNone, <<>>) : k \in Keys}
    \cup {Request(1, kv[1], kv[2], <<>>) : kv \in Keys \X Values}
    \cup {Request(2, k, PyNone, <<>>) : k \in Keys}
    \cup {Request(3, PyNone, PyNone, q) : q \in QueryStrings}
    \cup {Request(t, PyNone, PyNone, <<>>) : t \in {4, 5}}

\* the requests of the specification with the snapshot job
SnapshotRequests ==
    {Request(1, kv[1], kv[2], <<>>) : kv \in {PyInt(1), PyInt(6)} \X Values}
    \cup {Request(2, PyInt(1), PyNone, <<>>)}
    \cup {Request(3, PyNone, PyNone, Q_DeleteKeyLtInt9)}

\* the snapshot file: whether it exists, whether open(.., 'rb') is permitted,
\* and its content
File(exists, readable, bytes) ==
    [exists |-> exists, readable |-> readable, bytes |-> bytes]

TwoEntries == <<Entry(PyInt(1), PyInt(1)), Entry(Ab, Ab)>>

\* what the snapshot file can be when the server starts: missing,
\* unreadable, empty, not a pickle, a snapshot cut short, and complete
\* snapshots
InitFiles ==
    {File(FALSE, FALSE, <<>>),
     File(TRUE, FALSE, Dumps(TwoEntries)),
     File(TRUE, TRUE, <<>>),
     File(TRUE, TRUE, <<Op("GARBAGE")>>),
     File(TRUE, TRUE, SubSeq(Dumps(TwoEntries), 1, 5)),
     File(TRUE, TRUE, Dumps(<<>>)),
     File(TRUE, TRUE, Dumps(<<Entry(PyInt(6), Ab)>>)),
     File(TRUE, TRUE, Dumps(TwoEntries))}

(***************************************************************************)
(* The state.                                                              *)
(***************************************************************************)
VARIABLES
    pc,        \* where the main thread is: "init_db", "schedule", "start",
               \* "accept", "recv", "scan", "send", or "crashed"
    data,      \* self.data
    file,      \* the snapshot file: whether it exists, and its content
    request,   \* the request being served
    response,  \* the response to it
    scan,      \* the loop of a scan query: the parsed query, the copy of
               \* the dict, the position in it, the matches so far
    job,       \* the snapshot job: where it is, the position of its dict
               \* iterator, the dict size it read, how its last run ended
    error,     \* the exception that ended the main thread, or "none"
    added,     \* history: the (key, value) of every Add that succeeded and
               \* whose key no Delete or delete query has removed since
    seen,      \* history: the Store maps that stood between two requests
               \* while the snapshot job runs; once it has ended, the one
               \* among them that its snapshot equals, if any
    held       \* history: every map the dict held while the snapshot job
               \* runs; once it has ended, the one among them that its
               \* snapshot equals, if any

vars ==
    <<pc, data, file, request, response, scan, job, error, added, seen,
      held>>

NoScan == [q |-> NoParse, copy |-> <<>>, i |-> 0, matches |-> <<>>]

JobOff ==
    [pc |-> "off", pos |-> 0, size |-> 0, served |-> 0, result |-> "never"]

\* the process starts: __init__ is about to call _init_db
Init ==
    /\ pc = "init_db"
    /\ data = <<>>
    /\ file \in InitFiles
    /\ request = NoRequest
    /\ response = NoResponse
    /\ scan = NoScan
    /\ job = JobOff
    /\ error = "none"
    /\ added = {}
    /\ seen = {}
    /\ held = {}

(***************************************************************************)
(* Start-up: __init__ calls _init_db, _schedule_snapshot, _start_server    *)
(* and _listen in turn.                                                    *)
(***************************************************************************)
\* an exception leaves __init__: the process ends, and its scheduler thread
\* with it
Crash(exception) ==
    /\ pc' = "crashed"
    /\ error' = exception
    /\ job' = [job EXCEPT !.pc = "off",
                          !.result = IF @ = "running" THEN "killed" ELSE @]

\* _init_db: only an IOError (the file is missing or may not be read) is
\* caught; what pickle.loads raises leaves the method
_init_db ==
    /\ pc = "init_db"
    /\ IF ~file.exists \/ ~file.readable
       THEN /\ data' = <<>>
            /\ pc' = "schedule"
            /\ UNCHANGED <<job, error>>
       ELSE IF Loads(file.bytes).ok
       THEN /\ data' = Loads(file.bytes).data
            /\ pc' = "schedule"
            /\ UNCHANGED <<job, error>>
       ELSE /\ data' = <<>>
            /\ Crash(Loads(file.bytes).err)
    /\ UNCHANGED <<file, request, response, scan, added, seen, held>>

\* _schedule_snapshot: from now on the job may run
_schedule_snapshot ==
    /\ pc = "schedule"
    /\ pc' = "start"
    /\ job' = [job EXCEPT !.pc = "idle"]
    /\ UNCHANGED <<data, file, request, response, scan, error, added, seen,
                   held>>

\* _start_server with the exception recorded and not raised: the
\* constructor goes on to _listen
_start_server_goes_on ==
    /\ pc = "start"
    /\ pc' = "accept"
    /\ error' \in {error, "ConnectionError"}
    /\ UNCHANGED <<data, file, request, response, scan, job, added, seen,
                   held>>

\* _start_server: the socket is bound, or ConnectionError is raised
_start_server ==
    /\ pc = "start"
    /\ \/ pc' = "accept" /\ UNCHANGED <<job, error>>
       \/ Crash("ConnectionError")
    /\ UNCHANGED <<data, file, request, response, scan, added, seen, held>>

(***************************************************************************)
(* _listen: accept a connection, then receive, dispatch and send until the *)
(* client disconnects.                                                     *)
(***************************************************************************)
\* a dict as a map: its entries, whatever their order
AsMap(d) == {d[i] : i \in 1..Len(d)}

\* the Store maps that stood between two requests, once the main thread has
\* moved to nextPc with the dict nextData
SeenAfter(nextPc, nextData) ==
    IF job.result = "running" /\ nextPc # "scan"
    THEN seen \cup {AsMap(nextData)}
    ELSE seen

\* every map the dict held, once it is nextData
HeldAfter(nextData) ==
    IF job.result = "running" THEN held \cup {AsMap(nextData)} ELSE held

\* the job's dict iterator after the entry at position i was deleted: the
\* entries it has not yet visited stay the ones it will visit
JobAfterDel(i) ==
    IF job.pc = "batch" /\ i > 0 /\ i <= job.pos
    THEN [job EXCEPT !.pos = @ - 1]
    ELSE job

\* the job j, one more request received while it runs
JobServed(j) ==
    IF j.result = "running" THEN [j EXCEPT !.served = @ + 1] ELSE j

\* two keys an Add or a Delete treats as one
SameKey(a, b) == a = b \/ PyEq(a, b)

Forget(k) == {p \in added : ~SameKey(p[1], k)}

\* server_socket.accept() returns
Accept ==
    /\ pc = "accept"
    /\ pc' = "recv"
    /\ UNCHANGED <<data, file, request, response, scan, job, error, added,
                   seen, held>>

\* _query without the try of the "=" branch: the KeyError of an absent key
\* reaches the except clause of _query
_query_keyerror(d, query) ==
    IF ~Parsed(query).ok
       \/ (~IsScan(Parsed(query)) /\ DictFind(d, Parsed(query).value) = 0)
    THEN [data |-> d, response |-> _send_error("Invalid query syntax.")]
    ELSE IF IsScan(Parsed(query))
    THEN [data |-> d, response |-> Response(TRUE, None, <<>>)]
    ELSE [data |-> QueryByKeyEq(d, Parsed(query)).data,
          response |-> Response(TRUE, None,
                          QueryByKeyEq(d, Parsed(query)).matches)]

\* _query(query) when it runs no loop: a query that does not parse, the "="
\* lookup by key, and a scan of an empty dict
_query(d, query) ==
    LET q == Parsed(query)
    IN  IF ~q.ok
        THEN [data |-> d, response |-> _send_error("Invalid query syntax.")]
        ELSE IF IsScan(q)
        THEN [data |-> d, response |-> Response(TRUE, None, <<>>)]
        ELSE [data |-> QueryByKeyEq(d, q).data,
              response |-> Response(TRUE, None, QueryByKeyEq(d, q).matches)]

\* the table request_types of _listen, for the types it has an entry for
Handle(d, req) ==
    CASE req.request_type = 0 -> _read(d, req.key)
      [] req.request_type = 1 -> _add(d, req.key, req.value)
      [] req.request_type = 2 -> _delete(d, req.key)
      [] req.request_type = 3 -> _query(d, req.query)
      [] req.request_type = 4 ->
           [data |-> d,
            response |-> _send_error("Request type does not exist.")]

\* the position of the entry the request deletes without a scan, or 0
DeletedAt(d, req) ==
    LET q == Parsed(req.query)
    IN  IF req.request_type = 2 THEN DictFind(d, req.key)
        ELSE IF req.request_type = 3 /\ q.ok /\ ~IsScan(q)
                /\ q.action = "delete"
        THEN DictFind(d, q.value)
        ELSE 0

AddedAfter(d, req) ==
    IF req.request_type = 1
    THEN Forget(req.key) \cup {<<req.key, req.value>>}
    ELSE IF req.request_type = 2 THEN Forget(req.key)
    ELSE IF DeletedAt(d, req) > 0 THEN Forget(d[DeletedAt(d, req)].key)
    ELSE added

\* whether the request starts the loop of a scan query
StartsScan(d, req) ==
    /\ req.request_type = 3
    /\ Parsed(req.query).ok
    /\ IsScan(Parsed(req.query))
    /\ Len(d) > 0

\* one request through the table request_types.  request_types.get(.., 4)
\* yields the int 4, not the handler at 4, for a type the table lacks, and
\* calling it raises a TypeError nothing catches.
Dispatch(req) ==
    /\ request' = req
    /\ IF req.request_type \notin 0..4
       THEN /\ Crash("TypeError")
            /\ UNCHANGED <<data, response, scan, added, seen, held>>
       ELSE IF StartsScan(data, req)
       THEN /\ pc' = "scan"
            /\ scan' = [q |-> Parsed(req.query),
                        copy |-> data, i |-> 1, matches |-> <<>>]
            /\ response' = NoResponse
            /\ job' = JobServed(job)
            /\ UNCHANGED <<data, error, added, seen, held>>
       ELSE /\ pc' = "send"
            /\ data' = Handle(data, req).data
            /\ response' = Handle(data, req).response
            /\ job' = JobServed(JobAfterDel(DeletedAt(data, req)))
            /\ added' = AddedAfter(data, req)
            /\ seen' = SeenAfter("send", Handle(data, req).data)
            /\ held' = HeldAfter(Handle(data, req).data)
            /\ UNCHANGED <<scan, error>>
    /\ UNCHANGED file

\* client_socket.recv returns a request, which is dispatched
Recv(requests) ==
    /\ pc = "recv"
    /\ job.result = "running" => job.served < MaxServedPerDump
    /\ \E req \in requests :
          /\ req.request_type = 1 =>
                DictFind(data, req.key) > 0 \/ Len(data) < MaxEntries
          /\ Dispatch(req)

\* the loop over the live dict by position, not over a copy: after a
\* deletion the entry that moved into the freed position is never evaluated
ScanStepLive ==
    /\ pc = "scan"
    /\ LET e == scan.copy[scan.i]
           hit == ScanMatches(scan.q, e)
           del == hit /\ scan.q.action = "delete"
           matches == IF hit THEN Append(scan.matches, <<e.key, e.value>>)
                      ELSE scan.matches
           nextData == IF del THEN _delete_from_query(data, e) ELSE data
           nextI == IF del THEN scan.i + 2 ELSE scan.i + 1
           nextPc == IF nextI > Len(scan.copy) THEN "send" ELSE "scan"
       IN  /\ data' = nextData
           /\ job' = IF del THEN JobAfterDel(DictFindEntry(data, e)) ELSE job
           /\ added' = IF del THEN Forget(e.key) ELSE added
           /\ pc' = nextPc
           /\ seen' = SeenAfter(nextPc, nextData)
           /\ held' = HeldAfter(nextData)
           /\ IF nextPc = "send"
              THEN /\ response' = Response(TRUE, None, matches)
                   /\ scan' = NoScan
              ELSE /\ scan' = [scan EXCEPT !.i = nextI, !.matches = matches]
                   /\ UNCHANGED response
    /\ UNCHANGED <<file, request, error>>

\* one iteration of the loop of a scan query, and the return after the last
ScanStep ==
    /\ pc = "scan"
    /\ LET e == scan.copy[scan.i]
           hit == ScanMatches(scan.q, e)
           del == hit /\ scan.q.action = "delete"
           matches == IF hit THEN Append(scan.matches, <<e.key, e.value>>)
                      ELSE scan.matches
           nextData == IF del THEN _delete_from_query(data, e) ELSE data
           nextPc == IF scan.i = Len(scan.copy) THEN "send" ELSE "scan"
       IN  /\ data' = nextData
           /\ job' = IF del THEN JobAfterDel(DictFindEntry(data, e)) ELSE job
           /\ added' = IF del THEN Forget(e.key) ELSE added
           /\ pc' = nextPc
           /\ seen' = SeenAfter(nextPc, nextData)
           /\ held' = HeldAfter(nextData)
           /\ IF nextPc = "send"
              THEN /\ response' = Response(TRUE, None, matches)
                   /\ scan' = NoScan
              ELSE /\ scan' = [scan EXCEPT !.i = @ + 1, !.matches = matches]
                   /\ UNCHANGED response
    /\ UNCHANGED <<file, request, error>>

\* a send followed by the outer loop's accept, the connection still open
SendThenAccept ==
    /\ pc = "send"
    /\ pc' = "accept"
    /\ request' = NoRequest
    /\ response' = NoResponse
    /\ UNCHANGED <<data, file, scan, job, error, added, seen, held>>

\* client_socket.send(response): the loop is back at recv, and the request
\* and the response of this round are gone
Send ==
    /\ pc = "send"
    /\ pc' = "recv"
    /\ request' = NoRequest
    /\ response' = NoResponse
    /\ UNCHANGED <<data, file, scan, job, error, added, seen, held>>

\* client_socket.recv returns nothing: the client has disconnected
Disconnect ==
    /\ pc = "recv"
    /\ pc' = "accept"
    /\ UNCHANGED <<data, file, request, response, scan, job, error, added,
                   seen, held>>

(***************************************************************************)
(* The snapshot job: _create_snapshot, run by the scheduler's thread with  *)
(* no lock between it and the main thread.  pickle.dump walks the live     *)
(* dict; the main thread may run between any two of its steps.             *)
(***************************************************************************)
\* open(self.filename, 'wb') truncates the file, or raises, which the job
\* turns into PermissionError
SnapshotOpen ==
    /\ job.pc = "idle"
    /\ \/ /\ file' = File(TRUE, TRUE, <<>>)
          /\ job' = [pc |-> "opened", pos |-> 0, size |-> 0, served |-> 0,
                     result |-> "running"]
          /\ seen' = {AsMap(IF pc = "scan" THEN scan.copy ELSE data)}
          /\ held' = {AsMap(data)}
       \/ /\ job' = [job EXCEPT !.result = "open failed"]
          /\ UNCHANGED <<file, seen, held>>
    /\ UNCHANGED <<pc, data, request, response, scan, error, added>>

\* save_dict: the header, then batch_dict, which reads the dict's size; a
\* dict of no or one entry is written at once
SnapshotDumpStart ==
    /\ job.pc = "opened"
    /\ IF Len(data) <= 1
       THEN /\ file' = [file EXCEPT !.bytes = Dumps(data)]
            /\ job' = [job EXCEPT !.pc = "idle", !.result = "done"]
            /\ seen' = seen \cap {AsMap(Loads(Dumps(data)).data)}
            /\ held' = held \cap {AsMap(Loads(Dumps(data)).data)}
       ELSE /\ file' = [file EXCEPT !.bytes =
                           <<Op("PROTO"), Op("EMPTY_DICT"), Op("MARK")>>]
            /\ job' = [job EXCEPT !.pc = "batch", !.pos = 0,
                                  !.size = Len(data)]
            /\ UNCHANGED <<seen, held>>
    /\ UNCHANGED <<pc, data, request, response, scan, error, added>>

\* batch_dict: PyDict_Next yields the next entry of the live dict
SnapshotDumpItem ==
    /\ job.pc = "batch"
    /\ job.pos < Len(data)
    /\ Len(file.bytes) < 3 + 2 * MaxDumped
    /\ file' = [file EXCEPT !.bytes =
                   @ \o <<Push(data[job.pos + 1].key),
                          Push(data[job.pos + 1].value)>>]
    /\ job' = [job EXCEPT !.pos = @ + 1]
    /\ UNCHANGED <<pc, data, request, response, scan, error, added, seen,
                   held>>

\* the end of the dump with the RuntimeError raised in the main thread
SnapshotDumpEndFatal ==
    /\ job.pc = "batch"
    /\ job.pos >= Len(data)
    /\ IF Len(data) = job.size
       THEN /\ file' = [file EXCEPT !.bytes =
                           @ \o <<Op("SETITEMS"), Op("STOP")>>]
            /\ job' = [job EXCEPT !.pc = "idle", !.result = "done"]
            /\ seen' = seen \cap {AsMap(Loads(file'.bytes).data)}
            /\ held' = held \cap {AsMap(Loads(file'.bytes).data)}
            /\ UNCHANGED <<pc, error>>
       ELSE /\ file' = [file EXCEPT !.bytes = @ \o <<Op("SETITEMS")>>]
            /\ job' = [job EXCEPT !.pc = "off", !.result = "changed size"]
            /\ seen' = {}
            /\ held' = {}
            /\ pc' = "crashed"
            /\ error' = "PermissionError"
    /\ UNCHANGED <<data, request, response, scan, added>>

\* batch_dict: PyDict_Next is exhausted; a dict whose size is no longer the
\* one read at the start raises RuntimeError, which the job turns into
\* PermissionError, and the file stays as far as it was written
SnapshotDumpEnd ==
    /\ job.pc = "batch"
    /\ job.pos >= Len(data)
    /\ IF Len(data) = job.size
       THEN /\ file' = [file EXCEPT !.bytes =
                           @ \o <<Op("SETITEMS"), Op("STOP")>>]
            /\ job' = [job EXCEPT !.pc = "idle", !.result = "done"]
            /\ seen' = seen \cap {AsMap(Loads(file'.bytes).data)}
            /\ held' = held \cap {AsMap(Loads(file'.bytes).data)}
       ELSE /\ file' = [file EXCEPT !.bytes = @ \o <<Op("SETITEMS")>>]
            /\ job' = [job EXCEPT !.pc = "idle", !.result = "changed size"]
            /\ seen' = {}
            /\ held' = {}
    /\ UNCHANGED <<pc, data, request, response, scan, error, added>>

\* the process is stopped at any moment and a new one is started on the
\* file as it is
Restart ==
    /\ pc' = "init_db"
    /\ data' = <<>>
    /\ request' = NoRequest
    /\ response' = NoResponse
    /\ scan' = NoScan
    /\ job' = [job EXCEPT !.pc = "off",
                          !.result = IF @ = "running" THEN "killed" ELSE @]
    /\ error' = "none"
    /\ added' = {}
    /\ seen' = IF job.result = "running" THEN {} ELSE seen
    /\ held' = IF job.result = "running" THEN {} ELSE held
    /\ UNCHANGED file

(***************************************************************************)
(* The specifications.                                                     *)
(***************************************************************************)
\* the main thread, serving every request of Requests; the snapshot job is
\* scheduled and does not come due
Next ==
    \/ _init_db
    \/ _schedule_snapshot
    \/ _start_server
    \/ Accept
    \/ Recv(Requests)
    \/ ScanStep
    \/ Send
    \/ Disconnect

Spec == Init /\ [][Next]_vars

\* the main thread and the snapshot job side by side, and restarts
NextSnapshot ==
    \/ _init_db
    \/ _schedule_snapshot
    \/ _start_server
    \/ Accept
    \/ Recv(SnapshotRequests)
    \/ ScanStep
    \/ Send
    \/ Disconnect
    \/ SnapshotOpen
    \/ SnapshotDumpStart
    \/ SnapshotDumpItem
    \/ SnapshotDumpEnd
    \/ Restart

\* the process starts where no snapshot file exists yet
InitSnapshot == Init /\ ~file.exists

SpecSnapshot == InitSnapshot /\ [][NextSnapshot]_vars

(***************************************************************************)
(* The claims about the request handlers, under Spec.                      *)
(***************************************************************************)
\* a step of _listen that receives a request and answers it without a scan
Answers(t) == pc = "recv" /\ pc' = "send" /\ request'.request_type = t

\* the main thread is in the loop of _listen
Serving == pc \in {"accept", "recv", "scan", "send"}

Ok(k, v) == Response(TRUE, None, <<<<k, v>>>>)

\* C1, as claimed: an Add(k, v) is answered with success and data [(k, v)],
\* and a Read(k) after it, with no Delete of k and no delete query that
\* matched k in between, is answered with success, message None and data
\* [(k, v)], for every key k and value v.
C1_AddThenRead ==
    /\ pc = "send" /\ request.request_type = 1
          => response = Ok(request.key, request.value)
    /\ pc = "send" /\ request.request_type = 0
          => \A p \in added :
                p[1] = request.key => response = Ok(p[1], p[2])

\* C1, amended: the same for every key k that equals itself, which is every
\* key but a float NaN; an Add(NaN, v) is answered with success like any.
C1_AddThenReadOfEqualKey ==
    /\ pc = "send" /\ request.request_type = 1
          => response = Ok(request.key, request.value)
    /\ pc = "send" /\ request.request_type = 0
          => \A p \in added :
                p[1] = request.key /\ PyEq(p[1], p[1])
                   => response = Ok(p[1], p[2])

\* a Read of a key added before, with other entries in the Store, answered
C1_Witness ==
    /\ pc = "send"
    /\ request.request_type = 0
    /\ Len(data) > 1
    /\ \E p \in added : p[1] = request.key /\ response = Ok(p[1], p[2])

\* C2: for a key k that is not in the Store, Read(k) is answered with
\* success False, "Entry does not exist." and no data, Delete(k) with success
\* False, "Entry could not be deleted." and no data, and the Store is left
\* as it was.
C2_AbsentKeyFails ==
    [][/\ Answers(0) /\ DictFind(data, request'.key) = 0
          => /\ response' = Response(FALSE, "Entry does not exist.", <<>>)
             /\ data' = data
       /\ Answers(2) /\ DictFind(data, request'.key) = 0
          => /\ response' =
                   Response(FALSE, "Entry could not be deleted.", <<>>)
             /\ data' = data]_vars

\* a Read and a Delete of an absent key were refused, the Store not empty
C2_Witness ==
    /\ pc = "send"
    /\ request.request_type \in {0, 2}
    /\ DictFind(data, request.key) = 0
    /\ ~response.success
    /\ Len(data) > 0

\* the dict d without the entries whose key equals k, the others in place
Without(d, k) == SelectSeq(d, LAMBDA e : ~PyEq(e.key, k))

NoDuplicateKeys ==
    \A i, j \in 1..Len(data) : i # j => ~PyEq(data[i].key, data[j].key)

C5_MalformedQueryFails ==
    [][pc = "recv" /\ request'.request_type = 3
          /\ request'.query \in MalformedQueries
          => /\ pc' = "send"
             /\ response' = Response(FALSE, "Invalid query syntax.", <<>>)
             /\ data' = data]_vars

\* C6: a request whose type is none of 0, 1, 2, 3 is answered with success
\* False, "Request type does not exist." and no data, and the Store is left
\* as it was.
C6_UnknownTypeFails ==
    [][pc = "recv" /\ request' # NoRequest
          /\ request'.request_type \notin 0..3
          => /\ pc' = "send"
             /\ response' =
                   Response(FALSE, "Request type does not exist.", <<>>)
             /\ data' = data]_vars

\* C7: no request takes the server out of its serving loop: a received
\* request is answered with a Response, or is being scanned for, and the
\* main thread stays in the loop of _listen.
C7_KeepsServing ==
    [][Serving
          => /\ Serving'
             /\ pc = "recv" /\ pc' = "send" => response' # NoResponse]_vars

\* C9: when the snapshot file is missing, may not be read or does not
\* unpickle, _init_db leaves the empty map and __init__ goes on; no error of
\* the load leaves _init_db.
C9_LoadFailureGivesEmptyStore ==
    /\ pc = "crashed" => error \notin {"EOFError", "UnpicklingError"}
    /\ pc = "schedule"
          /\ (~file.exists \/ ~file.readable \/ ~Loads(file.bytes).ok)
          => data = <<>>

(***************************************************************************)
(* The claims about queries, under Spec.                                   *)
(***************************************************************************)
\* the entries of the dict d as the (key, value) pairs of a Response
Pairs(d) == [i \in 1..Len(d) |-> <<d[i].key, d[i].value>>]

\* a step in which the query is answered: at once, or by the last iteration
\* of its scan
Completes(query) ==
    /\ pc \in {"recv", "scan"}
    /\ pc' = "send"
    /\ request'.request_type = 3
    /\ request'.query = query

\* the dict as it was when the query being answered was received
Before == IF pc = "scan" THEN scan.copy ELSE data

\* the value of the entry e is a str that contains "b"
ContainsB(e) == e.value.kind = "str" /\ IsSubstring(<<"b">>, e.value.s)

LacksB(e) == ~ContainsB(e)

\* C11: the query "delete value contains b" removes from the Store every
\* entry whose value contains "b" and no other, and is answered with success
\* and exactly the removed entries, each once, with the value it had; the
\* Store it leaves has no such entry, and the same query on a Store with no
\* such entry is answered with success and no data.
C11_DeleteValueContains ==
    [][Completes(Q_DeleteValueContainsB)
          => /\ response' =
                   Response(TRUE, None, Pairs(SelectSeq(Before, ContainsB)))
             /\ data' = SelectSeq(Before, LacksB)
             /\ \A i \in 1..Len(data') : LacksB(data'[i])
             /\ (\A i \in 1..Len(Before) : LacksB(Before[i]))
                   => response' = Response(TRUE, None, <<>>)]_vars

\* the query was answered with an entry it removed, and left another behind
C11_Witness ==
    /\ pc = "send"
    /\ request.query = Q_DeleteValueContainsB
    /\ Len(response.data) = 1
    /\ response.data[1][2] = Ab
    /\ Len(data) = 1
    /\ DictFind(data, response.data[1][1]) = 0

\* the read queries on element key with an ordering operator and an int
OrderedIntReads ==
    {Q_ReadKeyGtInt5, Q_ReadKeyGeInt6, Q_ReadKeyLtInt6, Q_ReadKeyLeInt6}

\* n op m, for an ordering operator
Holds(op, n, m) ==
    CASE op = "<" -> n < m
      [] op = ">" -> n > m
      [] op = "<=" -> n <= m
      [] op = ">=" -> n >= m

\* the key of the entry e is an int that satisfies the parsed query q
IntKeySatisfies(q, e) ==
    e.key.kind = "int" /\ Holds(q.operator, e.key.n, q.value.n)

\* the key of the entry e is an int or a float (no NaN) that satisfies q
NumberKeySatisfies(q, e) ==
    /\ e.key.kind \in {"int", "float"}
    /\ ~e.key.nan
    /\ Holds(q.operator, e.key.n, q.value.n)

\* C12, as claimed: a read query on element key with an ordering operator
\* and an int value is answered with success and exactly the entries whose
\* key is an int that satisfies the operator against the value, each once,
\* in the order of the copy of the dict taken when the scan started, and
\* the Store is left as it was.
C12_ReadKeyOrdered ==
    [][\A query \in OrderedIntReads :
          Completes(query)
             => /\ response' =
                      Response(TRUE, None,
                         Pairs(SelectSeq(Before,
                            LAMBDA e : IntKeySatisfies(Parsed(query), e))))
                /\ data' = Before]_vars

\* C12, amended: the entries returned are those whose key is an int or a
\* float, no NaN, that satisfies the operator against the value; a float
\* key compares with the int of the query like an int key does.
C12_ReadKeyOrderedNumbers ==
    [][\A query \in OrderedIntReads :
          Completes(query)
             => /\ response' =
                      Response(TRUE, None,
                         Pairs(SelectSeq(Before,
                            LAMBDA e : NumberKeySatisfies(Parsed(query), e))))
                /\ data' = Before]_vars

\* such a query was answered with two entries in the order of the dict, an
\* int key after a float key
C12_Witness ==
    /\ pc = "send"
    /\ request.query \in OrderedIntReads
    /\ Len(data) = 2
    /\ data[1].key.kind = "float"
    /\ data[2].key.kind = "int"
    /\ response = Response(TRUE, None, Pairs(data))

\* the queries "read key = K"
KeyEqReads ==
    {Q_ReadKeyEqInt1, Q_ReadKeyEqAb, Q_ReadKeyEqFloat7, Q_ReadKeyEqFloatNan}

\* the dict d has an entry whose key is k, of the same kind
Present(d, k) == \E i \in 1..Len(d) : d[i].key = k

ValueOf(d, k) == d[CHOOSE i \in 1..Len(d) : d[i].key = k].value

\* C13, as claimed: for every key K in the Store, the query "read key = K"
\* is answered as Read(K) is: success, message None and the one entry
\* [(K, value of K)], and the Store is left as it was.
C13_ReadKeyEqIsRead ==
    [][\A query \in KeyEqReads :
          Completes(query) /\ Present(data, Parsed(query).value)
             => /\ response' = _read(data, Parsed(query).value).response
                /\ response' = Ok(Parsed(query).value,
                                  ValueOf(data, Parsed(query).value))
                /\ data' = data]_vars

\* C13, amended: the same for every key K in the Store that equals itself,
\* which is every key but a float NaN.
C13_ReadKeyEqIsReadOfEqualKey ==
    [][\A query \in KeyEqReads :
          (/\ Completes(query)
           /\ Present(data, Parsed(query).value)
           /\ PyEq(Parsed(query).value, Parsed(query).value))
             => /\ response' = _read(data, Parsed(query).value).response
                /\ response' = Ok(Parsed(query).value,
                                  ValueOf(data, Parsed(query).value))
                /\ data' = data]_vars

\* a query "read key = K" was answered with the entry of K, the second of
\* the dict
C13_Witness ==
    /\ pc = "send"
    /\ request.query \in KeyEqReads
    /\ Len(data) = 2
    /\ data[2].key = Parsed(request.query).value
    /\ response = Ok(data[2].key, data[2].value)

\* the entry e matches the parsed query q: the operator, applied to its key
\* or its value and the value of the query, returns True
Matches(q, e) ==
    ApplyOperator(q.operator,
                  IF q.element = "key" THEN e.key ELSE e.value,
                  q.value) = "true"

\* no entry of the dict d matches the parsed query q
NoMatch(q, d) == \A i \in 1..Len(d) : ~Matches(q, d[i])

\* C14: a well-formed query is answered with success and message None; one
\* that matches no entry, a "read key = K" or "delete key = K" of an absent
\* key and a scan of an empty Store among them, is answered with success,
\* message None and no data and leaves the Store as it was; a query is
\* refused only when its string does not parse or its literal does not
\* convert, and then with "Invalid query syntax."
C14_NoMatchSucceeds ==
    [][/\ \A query \in WellFormedQueries :
             Completes(query)
                => /\ response'.success
                   /\ response'.message = None
                   /\ NoMatch(Parsed(query), Before)
                         => /\ response' = Response(TRUE, None, <<>>)
                            /\ data' = Before
       /\ \A query \in QueryStrings :
             Completes(query) /\ ~response'.success
                => /\ query \in MalformedQueries
                   /\ ~Parsed(query).ok
                   /\ response' = _send_error("Invalid query syntax.")
      ]_vars

\* "delete key = int ( 1 )" was answered with success and no data by a
\* Store of two entries
C14_Witness ==
    /\ pc = "send"
    /\ request.query = Q_DeleteKeyEqInt1
    /\ response = Response(TRUE, None, <<>>)
    /\ Len(data) = 2

\* the well-formed queries that run a scan
ScanQueries == {query \in WellFormedQueries : IsScan(Parsed(query))}

\* the operator op is defined between a and b: any two values under "=",
\* two str under contains, two str or two real numbers under an ordering
Compatible(op, a, b) ==
    CASE op = "=" -> TRUE
      [] op = "contains" -> a.kind = "str" /\ b.kind = "str"
      [] OTHER -> \/ a.kind = "str" /\ b.kind = "str"
                  \/ a.kind \in {"int", "float"} /\ b.kind \in {"int", "float"}

\* what the parsed query q compares of the entry e
Operand(q, e) == IF q.element = "key" THEN e.key ELSE e.value

\* the entry e is compatible with the parsed query q and satisfies it
CompatibleMatch(q, e) ==
    Compatible(q.operator, Operand(q, e), q.value) /\ Matches(q, e)

\* C15: a scan query is answered with success and exactly the entries that
\* are compatible with its operator and value and satisfy it, in the order
\* of the dict; an entry whose key or value is of an incompatible kind is
\* skipped, and the entries after it are still scanned; a read leaves the
\* Store as it was and a delete removes the entries returned and no other.
C15_IncompatibleSkipped ==
    [][\A query \in ScanQueries :
          Completes(query)
             => /\ response' =
                      Response(TRUE, None,
                         Pairs(SelectSeq(Before,
                            LAMBDA e : CompatibleMatch(Parsed(query), e))))
                /\ \A i \in 1..Len(response'.data) :
                      Compatible(Parsed(query).operator,
                                 IF Parsed(query).element = "key"
                                 THEN response'.data[i][1]
                                 ELSE response'.data[i][2],
                                 Parsed(query).value)
                /\ data' = IF Parsed(query).action = "read" THEN Before
                           ELSE SelectSeq(Before,
                                   LAMBDA e :
                                      ~CompatibleMatch(Parsed(query), e))
      ]_vars

\* a scan skipped a first entry of an incompatible kind and returned the
\* second
C15_Witness ==
    /\ pc = "send"
    /\ request.query \in ScanQueries
    /\ Len(data) = 2
    /\ ~Compatible(Parsed(request.query).operator,
                   Operand(Parsed(request.query), data[1]),
                   Parsed(request.query).value)
    /\ response = Response(TRUE, None, <<<<data[2].key, data[2].value>>>>)

\* the parsed query q deletes the entry e
Removed(q, e) == q.action = "delete" /\ Matches(q, e)

\* the dict a scan of the copy leaves when it has evaluated the entries
\* before position i: those of them q does not delete, and the others
AfterVisits(q, copy, i) ==
    SelectSeq(SubSeq(copy, 1, i - 1), LAMBDA e : ~Removed(q, e))
       \o SubSeq(copy, i, Len(copy))

\* the matches a scan of the copy has when it has evaluated the entries
\* before position i
MatchesBefore(q, copy, i) ==
    Pairs(SelectSeq(SubSeq(copy, 1, i - 1), LAMBDA e : Matches(q, e)))

\* C21: a scan query evaluates the entries that were in the Store when it
\* started, each once, in the order of the copy, whatever it deletes on the
\* way: the copy is the Store at the start and does not change, the scan
\* moves from one position to the next and ends after the last; at every
\* moment the Store is the copy without the entries evaluated so far that a
\* delete query matched, every other entry in place with its value; and a
\* query with action read leaves the Store as it was.
C21_ScanVisitsEachEntryOnce ==
    /\ [](pc = "scan"
            => /\ scan.i \in 1..Len(scan.copy)
               /\ data = AfterVisits(scan.q, scan.copy, scan.i)
               /\ scan.matches = MatchesBefore(scan.q, scan.copy, scan.i))
    /\ [][/\ pc = "recv" /\ pc' = "scan"
             => scan'.copy = data /\ scan'.i = 1 /\ data' = data
          /\ pc = "scan" /\ pc' = "scan"
             => /\ scan'.copy = scan.copy
                /\ scan'.q = scan.q
                /\ scan'.i = scan.i + 1
          /\ pc = "scan" => ((pc' = "send") <=> (scan.i = Len(scan.copy)))
          /\ pc = "scan" /\ pc' = "send"
             => /\ data' = AfterVisits(scan.q, scan.copy,
                                       Len(scan.copy) + 1)
                /\ response' =
                      Response(TRUE, None,
                         MatchesBefore(scan.q, scan.copy,
                                       Len(scan.copy) + 1))
          /\ \A query \in QueryStrings :
                (/\ Completes(query)
                 /\ Parsed(query).ok
                 /\ Parsed(query).action = "read")
                   => data' = Before
         ]_vars

\* a delete scan was answered with the two entries of the Store, both
\* evaluated and both deleted
C21_Witness ==
    /\ pc = "send"
    /\ request.query \in ScanQueries
    /\ Parsed(request.query).action = "delete"
    /\ Len(response.data) = 2
    /\ data = <<>>

(***************************************************************************)
(* The claims about the connection and the responses, under Spec.          *)
(***************************************************************************)
\* a client is connected: the main thread is in the inner loop of _listen
Connected == pc \in {"recv", "scan", "send"}

\* C16: on a connection requests and responses alternate: a request is
\* received only when the one before it has been answered, every request
\* received is on its way to the one Response sent for it, and a Response is
\* sent only for a request received and is followed by the next receive.
C16_RequestsAndResponsesAlternate ==
    [][/\ pc = "recv" /\ request' # NoRequest
          => /\ request = NoRequest
             /\ pc' \in {"scan", "send"}
       /\ pc = "scan" => pc' \in {"scan", "send"} /\ request' = request
       /\ pc = "send"
          => /\ request # NoRequest
             /\ response # NoResponse
             /\ pc' = "recv"
             /\ request' = NoRequest]_vars

\* C17: the server has one connection at most: a connection is accepted
\* only while the main thread waits in accept, with no client connected;
\* a connection ends only when recv returns nothing, or with the process;
\* and when it has ended the main thread waits in accept again.
C17_OneConnectionAtATime ==
    [][/\ ~Connected /\ Connected' => pc = "accept" /\ pc' = "recv"
       /\ pc = "accept" => pc' = "recv"
       /\ Connected /\ ~Connected'
          => \/ pc = "recv" /\ pc' = "accept" /\ request = NoRequest
             \/ pc' = "crashed"]_vars

\* a client has disconnected from a server that started without a snapshot
\* file and served an Add, and the server waits for the next client
C17_Witness ==
    /\ pc = "accept"
    /\ ~file.exists
    /\ Len(data) > 0

\* the messages of _read, _add, _delete, _query and _listen
ErrorMessages ==
    {"Entry does not exist.", "Entry could not be added.",
     "Entry could not be deleted.", "Invalid query syntax.",
     "Request type does not exist."}

\* C18: every Response the server produces has a message exactly when its
\* success is False: a successful one has message None, a failed one has no
\* data and one of the five messages of the handlers.
C18_MessageIffFailure ==
    response # NoResponse
       => /\ response.success => response.message = None
          /\ ~response.success
                => /\ response.message \in ErrorMessages
                   /\ response.data = <<>>

\* a failed and a successful Response can be told apart: a Delete of an
\* absent key was refused by a Store that is not empty
C18_Witness ==
    /\ pc = "send"
    /\ request.request_type = 2
    /\ response = Response(FALSE, "Entry could not be deleted.", <<>>)
    /\ Len(data) > 0

\* C19: when the listening socket cannot be created or bound, the
\* constructor ends with ConnectionError: the main thread does not reach
\* accept, now or later, and _start_server is not run again.
C19_BindFailureIsFatal ==
    [][/\ pc = "start" => pc' = "accept" \/ pc' = "crashed"
       /\ pc = "start" /\ pc' = "crashed"
          => error' = "ConnectionError" /\ data' = data
       /\ error' = "ConnectionError" => pc' = "crashed"
       /\ pc = "crashed" => pc' = "crashed" /\ error' = error]_vars

\* the bind has failed and the constructor has raised ConnectionError
C19_Witness ==
    /\ pc = "crashed"
    /\ error = "ConnectionError"
    /\ response = NoResponse
    /\ job.pc = "off"

(***************************************************************************)
(* The claims about the snapshot job, under SpecSnapshot.                  *)
(***************************************************************************)
\* the map a server started on the snapshot file would load
Snapshot == AsMap(Loads(file.bytes).data)

\* C8: with the snapshot job running beside the main thread, every snapshot
\* the job writes is the whole Store map as it stood at one instant between
\* two requests, and the job never fails because the dict was changed while
\* it was pickled.
C8_SnapshotIsOneInstant ==
    /\ job.result # "changed size"
    /\ job.result = "done" => Loads(file.bytes).ok /\ Snapshot \in seen

\* C10: when a snapshot has completed, a server that starts from its file
\* holds, after _init_db, a map equal key by key and value by value to a map
\* the Store held while it was pickled.
C10_SnapshotRoundTrip ==
    pc = "schedule" /\ job.result = "done" => AsMap(data) \in held

\* how a run of the job ends when _create_snapshot raises PermissionError
PermissionErrors == {"open failed", "changed size"}

\* a step in which a run of the snapshot job ends with PermissionError
JobFails == job'.result \in PermissionErrors /\ job'.result # job.result

\* C20: a snapshot write that fails ends the run of the job with
\* PermissionError and is not taken for a snapshot written; it leaves the
\* main thread where it is, with its request, its response and the Store as
\* they were, and the job scheduled for its next run; the server goes on
\* receiving requests.
C20_SnapshotFailureIsReported ==
    /\ [](job.result \in PermissionErrors /\ pc = "recv"
             => ENABLED Recv(SnapshotRequests))
    /\ [][/\ JobFails
             => /\ pc' = pc
                /\ data' = data
                /\ error' = error
                /\ request' = request
                /\ response' = response
                /\ scan' = scan
                /\ job'.pc = "idle"
          /\ job.pc = "batch" /\ job'.pc = "idle"
                /\ ~Loads(file'.bytes).ok
             => job'.result \in PermissionErrors]_vars

\* a run of the job has failed on a dict that changed size, and the main
\* thread has answered a request of a Store that is not empty
C20_Witness ==
    /\ job.result = "changed size"
    /\ ~Loads(file.bytes).ok
    /\ pc = "send"
    /\ response.success
    /\ Len(data) > 0

\* C22: at every moment the snapshot file is absent or holds a complete
\* pickle of a map the Store held, while a snapshot is being written and
\* after a write has failed as well: a server started at any moment loads
\* such a map, or starts empty when there is no file, and never fails on,
\* or loads, a partial one.
C22_FileIsAlwaysASnapshot ==
    /\ file.exists => Loads(file.bytes).ok
    /\ file.exists /\ job.result = "done" => Snapshot \in held
    /\ pc = "crashed" => error \notin {"EOFError", "UnpicklingError"}
    /\ pc = "schedule" /\ ~file.exists => data = <<>>

====
